---------------------------- MODULE Spec2Model ----------------------------
(***************************************************************************)
(* Model of src/main.py: a Telegram bot that records a mode per            *)
(* conversation (button_handler), relays a submitted text to a remote      *)
(* IMEI API (process_data, send_api_request) and reports failures          *)
(* (error_handler), started by main.                                       *)
(*                                                                         *)
(* Python str values are sequences of one-character strings, so that       *)
(* formatting, parsing and the iteration over a str are computed and not   *)
(* assumed.  Python None is the one-element sequence None, which is no     *)
(* sequence of characters.                                                 *)
(***************************************************************************)
EXTENDS Integers, Sequences, FiniteSets, TLC

(***************************************************************************)
(* Bounds of the model.                                                    *)
(***************************************************************************)
\* total number of updates the framework delivers in one run
MaxUpdates == 3
\* a Telegram call of a handler may fail at its call number 0..MaxFailAt
MaxFailAt == 1

Conversations == {"c1", "c2"}

(***************************************************************************)
(* Python values.                                                          *)
(***************************************************************************)
None == <<"None">>

\* bool(x) of an optional str
Truthy(x) == x # None /\ x # <<>>

\* str(x) inside an f-string, of an optional str
Fmt(x) == IF x = None THEN <<"N", "o", "n", "e">> ELSE x

Digit(d) == CASE d = 0 -> "0" [] d = 1 -> "1" [] d = 2 -> "2" [] d = 3 -> "3"
              [] d = 4 -> "4" [] d = 5 -> "5" [] d = 6 -> "6" [] d = 7 -> "7"
              [] d = 8 -> "8" [] d = 9 -> "9"

Digits == {"0", "1", "2", "3", "4", "5", "6", "7", "8", "9"}

DigitValue(ch) == CHOOSE d \in 0..9 : Digit(d) = ch

\* str(n) of a non-negative int, as the f-string of line 84 renders it
RECURSIVE IntToStr(_)
IntToStr(n) == IF n < 10 THEN <<Digit(n)>>
               ELSE IntToStr(n \div 10) \o <<Digit(n % 10)>>

(***************************************************************************)
(* JSON documents as Python holds them: None, int, str, dict (insertion    *)
(* ordered).                                                               *)
(***************************************************************************)
JNull == [t |-> "null"]
JInt(n) == [t |-> "int", n |-> n]
JStr(s) == [t |-> "str", s |-> s]
JDict(items) == [t |-> "dict", items |-> items]

\* d[k] = v on a dict: an existing key keeps its place, a new one is appended
RECURSIVE DictSet(_, _, _)
DictSet(items, k, v) ==
    IF items = <<>> THEN << <<k, v>> >>
    ELSE IF Head(items)[1] = k THEN << <<k, v>> >> \o Tail(items)
    ELSE <<Head(items)>> \o DictSet(Tail(items), k, v)

Spaces(n) == [i \in 1..n |-> " "]

\* json.dumps of a str with ensure_ascii=False: quote and backslash escaped
RECURSIVE EscapeStr(_)
EscapeStr(s) ==
    IF s = <<>> THEN <<>>
    ELSE (IF Head(s) \in {"\"", "\\"} THEN <<"\\", Head(s)>> ELSE <<Head(s)>>)
         \o EscapeStr(Tail(s))

DumpStr(s) == <<"\"">> \o EscapeStr(s) \o <<"\"">>

\* json.dumps(v, indent=4, ensure_ascii=False), v at nesting depth level
RECURSIVE json_dumps_at(_, _)
RECURSIVE DumpItems(_, _)
DumpItems(items, level) ==
    LET kv == Head(items)
        one == Spaces(4 * level) \o DumpStr(kv[1]) \o <<":", " ">>
               \o json_dumps_at(kv[2], level)
    IN IF Len(items) = 1 THEN one
       ELSE one \o <<",", "\n">> \o DumpItems(Tail(items), level)

json_dumps_at(v, level) ==
    CASE v.t = "null" -> <<"n", "u", "l", "l">>
      [] v.t = "int" -> IntToStr(v.n)
      [] v.t = "str" -> DumpStr(v.s)
      [] v.t = "dict" ->
            IF v.items = <<>> THEN <<"{", "}">>
            ELSE <<"{", "\n">> \o DumpItems(v.items, level + 1)
                 \o <<"\n">> \o Spaces(4 * level) \o <<"}">>

json_dumps(v) == json_dumps_at(v, 0)


(***************************************************************************)
(* json.loads, as response.json() applies it to the body text: objects     *)
(* with string keys, strings, non-negative integers and null, with         *)
(* optional whitespace between tokens.  A parse result is                  *)
(* [ok, val, next]; ok = FALSE stands for json.JSONDecodeError.            *)
(***************************************************************************)
IsWs(ch) == ch \in {" ", "\n", "\t", "\r"}

RECURSIVE SkipWs(_, _)
SkipWs(s, i) == IF i <= Len(s) /\ IsWs(s[i]) THEN SkipWs(s, i + 1) ELSE i

ParseFail == [ok |-> FALSE, val |-> JNull, next |-> 0]

ParseOk(v, n) == [ok |-> TRUE, val |-> v, next |-> n]

\* the characters of a string literal from position i, after its opening quote
RECURSIVE ScanStr(_, _, _)
ScanStr(s, i, acc) ==
    IF i > Len(s) THEN ParseFail
    ELSE IF s[i] = "\"" THEN ParseOk(JStr(acc), i + 1)
    ELSE IF s[i] = "\\" THEN
        IF i + 1 <= Len(s) /\ s[i + 1] \in {"\"", "\\"}
        THEN ScanStr(s, i + 2, Append(acc, s[i + 1]))
        ELSE ParseFail
    ELSE IF s[i] \in {"\n", "\t", "\r"} THEN ParseFail
    ELSE ScanStr(s, i + 1, Append(acc, s[i]))

RECURSIVE ScanInt(_, _, _)
ScanInt(s, i, n) ==
    IF i <= Len(s) /\ s[i] \in Digits
    THEN ScanInt(s, i + 1, 10 * n + DigitValue(s[i]))
    ELSE ParseOk(JInt(n), i)

RECURSIVE ParseValue(_, _)
RECURSIVE ParseMembers(_, _, _)
ParseValue(s, i) ==
    IF i > Len(s) THEN ParseFail
    ELSE CASE s[i] = "\"" -> ScanStr(s, i + 1, <<>>)
           [] s[i] = "{" ->
                LET j == SkipWs(s, i + 1)
                IN IF j <= Len(s) /\ s[j] = "}" THEN ParseOk(JDict(<<>>), j + 1)
                   ELSE ParseMembers(s, j, <<>>)
           [] s[i] = "0" -> ParseOk(JInt(0), i + 1)
           [] s[i] \in Digits \ {"0"} -> ScanInt(s, i, 0)
           [] s[i] = "n" ->
                IF i + 3 <= Len(s) /\ SubSeq(s, i, i + 3) = <<"n", "u", "l", "l">>
                THEN ParseOk(JNull, i + 4)
                ELSE ParseFail
           [] OTHER -> ParseFail

\* the members of an object from position i, items being those read so far
ParseMembers(s, i, items) ==
    IF i > Len(s) \/ s[i] # "\"" THEN ParseFail
    ELSE LET k == ScanStr(s, i + 1, <<>>)
         IN IF ~k.ok THEN ParseFail
            ELSE LET c == SkipWs(s, k.next)
                 IN IF c > Len(s) \/ s[c] # ":" THEN ParseFail
                    ELSE LET v == ParseValue(s, SkipWs(s, c + 1))
                         IN IF ~v.ok THEN ParseFail
                            ELSE LET e == SkipWs(s, v.next)
                                     items2 == DictSet(items, k.val.s, v.val)
                                 IN IF e > Len(s) THEN ParseFail
                                    ELSE IF s[e] = "}"
                                         THEN ParseOk(JDict(items2), e + 1)
                                    ELSE IF s[e] = ","
                                         THEN ParseMembers(s, SkipWs(s, e + 1), items2)
                                    ELSE ParseFail

json_loads(s) ==
    LET r == ParseValue(s, SkipWs(s, 1))
    IN IF r.ok /\ SkipWs(s, r.next) = Len(s) + 1
       THEN [ok |-> TRUE, val |-> r.val]
       ELSE [ok |-> FALSE, val |-> JNull]

(***************************************************************************)
(* The str literals of main.py.                                            *)
(***************************************************************************)
MODE_LIVE ==
    <<"l", "i", "v", "e">>

MODE_SANDBOX ==
    <<"s", "a", "n", "d", "b", "o", "x">>

S_http ==
    <<"h", "t", "t", "p", ":", "/", "/">>

S_api ==
    <<"/", "a", "p", "i", "/">>

S_check_imei ==
    <<"c", "h", "e", "c", "k", "-", "i", "m", "e", "i">>

S_check_imei_sandbox ==
    <<"c", "h", "e", "c", "k", "-", "i", "m", "e", "i", "-", "s", "a", "n",
    "d", "b", "o", "x">>

S_True ==
    <<"T", "r", "u", "e">>

S_False ==
    <<"F", "a", "l", "s", "e">>

S_error ==
    <<"e", "r", "r", "o", "r">>

S_request_failed ==
    <<"R", "e", "q", "u", "e", "s", "t", " ", "f", "a", "i", "l", "e", "d",
    " ", "w", "i", "t", "h", " ", "s", "t", "a", "t", "u", "s", " ">>

S_failed_to_connect ==
    <<"F", "a", "i", "l", "e", "d", " ", "t", "o", " ", "c", "o", "n", "n",
    "e", "c", "t", " ", "t", "o", " ", "A", "P", "I">>


(***************************************************************************)
(* The inputs: the environment of the process, the updates Telegram        *)
(* delivers and what the remote API does with a request.                   *)
(***************************************************************************)
IMEI ==
    <<"4", "9", "0", "1", "5", "4", "2", "0", "3", "2", "3", "7", "5", "1",
    "8">>

S_word ==
    <<"A">>

S_start ==
    <<"/", "s", "t", "a", "r", "t">>

S_help ==
    <<"/", "h", "e", "l", "p">>

S_other ==
    <<"o", "t", "h", "e", "r">>

required_vars == <<"API_HOST", "API_PORT", "API_TOKEN", "BOT_TOKEN", "TEST">>

EnvVars == {required_vars[i] : i \in 1..Len(required_vars)}

\* what os.environ may hold for a variable: nothing, the empty str or a value
EnvValues(var) ==
    {None, <<>>} \cup
    (CASE var = "API_HOST" -> {<<"h">>}
       [] var = "API_PORT" -> {<<"8", "0">>}
       [] var = "API_TOKEN" -> {<<"k">>}
       [] var = "BOT_TOKEN" -> {<<"b">>}
       [] var = "TEST" -> {S_True, S_False})

Environments ==
    {[v \in EnvVars |->
         CASE v = "API_HOST" -> host [] v = "API_PORT" -> port
           [] v = "API_TOKEN" -> token [] v = "BOT_TOKEN" -> bot [] v = "TEST" -> test] :
     host \in EnvValues("API_HOST"), port \in EnvValues("API_PORT"),
     token \in EnvValues("API_TOKEN"), bot \in EnvValues("BOT_TOKEN"),
     test \in EnvValues("TEST")}

\* an update: a message, an edited message (update.message is None) or a
\* callback query of an inline button
MessageUpdate(text) == [kind |-> "message", text |-> text, data |-> None]

EditedMessageUpdate(text) == [kind |-> "edited_message", text |-> text, data |-> None]

CallbackUpdate(data) == [kind |-> "callback_query", text |-> None, data |-> data]

NoUpdate == [kind |-> "none", text |-> None, data |-> None]

\* text None: a message without text, such as a photo
Texts == {None, IMEI, S_word, S_start, S_help}

EditedTexts == {IMEI, S_start}

CallbackData == {MODE_LIVE, MODE_SANDBOX, S_other}

Updates == {MessageUpdate(t) : t \in Texts}
           \cup {EditedMessageUpdate(t) : t \in EditedTexts}
           \cup {CallbackUpdate(d) : d \in CallbackData}

\* bodies the remote API may send that are JSON texts
\* {}
Body1 ==
    <<"{", "}">>

\* {"a":"b"}
Body2 ==
    <<"{", "\"", "a", "\"", ":", "\"", "b", "\"", "}">>

\* { "a" : "b" }
Body3 ==
    <<"{", " ", "\"", "a", "\"", " ", ":", " ", "\"", "b", "\"", " ", "}">>

\* {"error":"x"}
Body4 ==
    <<"{", "\"", "e", "r", "r", "o", "r", "\"", ":", "\"", "x", "\"", "}">>

\* {"a":1,"b":{"c":null}}
Body5 ==
    <<"{", "\"", "a", "\"", ":", "1", ",", "\"", "b", "\"", ":", "{", "\"",
    "c", "\"", ":", "n", "u", "l", "l", "}", "}">>

\* 7
Body6 ==
    <<"7">>

\* not a JSON text: {"a"
BadBody1 ==
    <<"{", "\"", "a", "\"">>

\* not a JSON text: (empty)
BadBody2 ==
    <<>>

\* not a JSON text: <html>
BadBody3 ==
    <<"<", "h", "t", "m", "l", ">">>

JsonBodies == {Body1, Body2, Body3, Body4, Body5, Body6}

BadBodies == {BadBody1, BadBody2, BadBody3}

Statuses == {200, 201, 404, 500}

ContentTypes == {"application/json", "text/plain"}

TransportErrors == {"ClientConnectorError", "ClientConnectorSSLError", "TimeoutError"}

Response(status, ctype, body) ==
    [kind |-> "response", status |-> status, ctype |-> ctype, body |-> body, exc |-> ""]

TransportFailure(exc) ==
    [kind |-> "exception", status |-> 0, ctype |-> "", body |-> <<>>, exc |-> exc]

NoOutcome == [kind |-> "none", status |-> 0, ctype |-> "", body |-> <<>>, exc |-> ""]

\* what may come of one POST: a response, or an exception of the transport
\* (no connection, a TLS failure, the total timeout of the session expiring)
Outcomes ==
    {Response(200, ct, b) : ct \in ContentTypes, b \in JsonBodies \cup BadBodies}
    \cup {Response(st, "application/json", b) :
              st \in Statuses \ {200}, b \in {Body2, BadBody2}}
    \cup {TransportFailure(e) : e \in TransportErrors}

\* which Telegram call of a handler run fails, counted from 0; -1: none
FailChoices == {-1} \cup 0..MaxFailAt

(***************************************************************************)
(* The state.                                                              *)
(*   environ      os.environ of the process                                *)
(*   pc_main      where main is: "start", "raised" (EnvironmentError) or   *)
(*                "run_polling"                                            *)
(*   application  the handlers main registered                             *)
(*   user_data    context.user_data["selected_mode"] of each conversation  *)
(*   frame        the handler run of each conversation: its update, its    *)
(*                locals and where it stands                               *)
(*   sent         the Telegram calls made for the update of the frame,     *)
(*                each with ok = whether Telegram carried it out           *)
(*   posts        the HTTP requests issued for the update of the frame     *)
(*   nupdates     the number of updates delivered so far                   *)
(***************************************************************************)
VARIABLES environ, pc_main, application, user_data, frame, sent, posts, nupdates

vars == <<environ, pc_main, application, user_data, frame, sent, posts, nupdates>>

(***************************************************************************)
(* Module level configuration, lines 23-32.                                *)
(***************************************************************************)
os_environ_get(var) == environ[var]

BASE_API ==
    S_http \o Fmt(os_environ_get("API_HOST")) \o <<":">>
    \o Fmt(os_environ_get("API_PORT")) \o S_api

API_URL_LIVE == BASE_API \o S_check_imei

API_URL_SANDBOX == BASE_API \o S_check_imei_sandbox

TOKEN == os_environ_get("API_TOKEN")

TELEGRAM_BOT_TOKEN == os_environ_get("BOT_TOKEN")

TEST == os_environ_get("TEST") = S_True

\* load_env_vars: the first variable of required_vars, in order, that is
\* missing or empty, named by the EnvironmentError raised; "" when it returns
RECURSIVE FirstMissing(_)
FirstMissing(vs) ==
    IF vs = <<>> THEN ""
    ELSE IF ~Truthy(os_environ_get(Head(vs))) THEN Head(vs)
    ELSE FirstMissing(Tail(vs))

\* a mutant of load_env_vars: "is None" instead of "not", an empty value passes
RECURSIVE FirstAbsent(_)
FirstAbsent(vs) ==
    IF vs = <<>> THEN ""
    ELSE IF os_environ_get(Head(vs)) = None THEN Head(vs)
    ELSE FirstAbsent(Tail(vs))

load_env_vars_none_only == FirstAbsent(required_vars)

load_env_vars == FirstMissing(required_vars)

(***************************************************************************)
(* Exceptions: the class and, for aiohttp.ClientResponseError, the status. *)
(***************************************************************************)
Exc(type, status) == [type |-> type, status |-> status]

NoExc == Exc("", 0)

\* isinstance(e, aiohttp.ClientConnectorError): the class or a subclass
IsClientConnectorError(e) ==
    e.type \in {"ClientConnectorError", "ClientConnectorSSLError"}

\* isinstance(e, aiohttp.ClientResponseError)
IsClientResponseError(e) == e.type \in {"ClientResponseError", "ContentTypeError"}

\* isinstance(e, Exception): all but the BaseException-only classes
IsException(e) ==
    e.type \in {"ClientConnectorError", "ClientConnectorSSLError", "TimeoutError",
                "ClientResponseError", "ContentTypeError", "JSONDecodeError",
                "AttributeError", "NetworkError", "EnvironmentError"}

(***************************************************************************)
(* send_api_request, lines 68-87.                                          *)
(***************************************************************************)
TIMEOUT_TOTAL == 5

\* line 71: computed and not used afterwards
ssl_context == IF TEST THEN "False" ELSE "None"

\* line 75: the ssl argument given to aiohttp.TCPConnector
connector_ssl == "None"

\* the POST of lines 74-79
Request(url, data) ==
    [method |-> "POST", url |-> url, headers |-> [token |-> TOKEN], params |-> data,
     ssl |-> connector_ssl, timeout |-> TIMEOUT_TOTAL]

Returned(v) == [raised |-> FALSE, value |-> v, exc |-> NoExc]

Raised(e) == [raised |-> TRUE, value |-> JNull, exc |-> e]

ErrorRecord(text) == JDict(<< <<S_error, JStr(text)>> >>)

\* await response.json(): the content type is checked, then the body parsed
response_json(outcome) ==
    IF outcome.ctype # "application/json"
    THEN Raised(Exc("ContentTypeError", outcome.status))
    ELSE LET r == json_loads(outcome.body)
         IN IF r.ok THEN Returned(r.val) ELSE Raised(Exc("JSONDecodeError", 0))

\* a mutant of try_body: every 2xx status taken for a success
try_body_any_2xx(outcome) ==
    IF outcome.kind = "exception" THEN Raised(Exc(outcome.exc, 0))
    ELSE IF outcome.status \in 200..299 THEN response_json(outcome)
    ELSE Returned(ErrorRecord(S_request_failed \o IntToStr(outcome.status)))

\* lines 74-84, the body of the try
try_body(outcome) ==
    IF outcome.kind = "exception" THEN Raised(Exc(outcome.exc, 0))
    ELSE IF outcome.status = 200 THEN response_json(outcome)
    ELSE Returned(ErrorRecord(S_request_failed \o IntToStr(outcome.status)))

\* isinstance(e, aiohttp.ClientError)
IsClientError(e) ==
    e.type \in {"ClientConnectorError", "ClientConnectorSSLError",
                "ClientResponseError", "ContentTypeError"}

\* a mutant of send_api_request: "except aiohttp.ClientError" instead of
\* "except Exception"
send_api_request_client_errors_only(url, data, outcome) ==
    LET r == try_body(outcome)
    IN IF r.raised /\ IsClientError(r.exc)
       THEN Returned(ErrorRecord(S_failed_to_connect))
       ELSE r

\* lines 73-87: outcome is what the remote side does with the request
send_api_request(url, data, outcome) ==
    LET r == try_body(outcome)
    IN IF r.raised /\ IsException(r.exc)
       THEN Returned(ErrorRecord(S_failed_to_connect))
       ELSE r

(***************************************************************************)
(* Telegram calls.  tpl names the text:                                    *)
(*   choose_mode        "Выберите режим работы:" with the two mode buttons *)
(*   mode_chosen        "Вы выбрали Режим {arg}. Введите imei:"            *)
(*   choose_mode_first  "Сначала выберите режим работы."                   *)
(*   api_response       "Ответ от API:\n<code>{arg}</code>"                *)
(*   error_generic      "Произошла ошибка. Попробуйте снова."              *)
(*   error_connect      "Не удалось подключиться к API. ..."               *)
(*   error_api          "Ошибка API: {arg}. Попробуйте снова."             *)
(***************************************************************************)
Call(method, tpl, arg) == [method |-> method, tpl |-> tpl, arg |-> arg, ok |-> TRUE]

\* the calls a handler gets to make when its call number fail_at raises
Attempt(calls, fail_at) ==
    IF fail_at \in 0..(Len(calls) - 1)
    THEN [i \in 1..(fail_at + 1) |-> [calls[i] EXCEPT !.ok = (i # fail_at + 1)]]
    ELSE calls

CallFailed(calls, fail_at) == fail_at \in 0..(Len(calls) - 1)

TelegramError(calls, fail_at) ==
    IF CallFailed(calls, fail_at) THEN Exc("NetworkError", 0) ELSE NoExc

(***************************************************************************)
(* start, lines 43-50.                                                     *)
(***************************************************************************)
start(update, fail_at) ==
    IF update.kind # "message"
    THEN [calls |-> <<>>, error |-> Exc("AttributeError", 0)]
    ELSE LET calls == <<Call("reply_text", "choose_mode", <<>>)>>
         IN [calls |-> Attempt(calls, fail_at),
             error |-> TelegramError(calls, fail_at)]

\* a mutant of button_handler: a mode once stored is kept (setdefault)
button_handler_setdefault(mode, update, fail_at) ==
    LET data == update.data
        edit == IF data = MODE_LIVE
                THEN <<Call("edit_message_text", "mode_chosen", MODE_LIVE)>>
                ELSE IF data = MODE_SANDBOX
                THEN <<Call("edit_message_text", "mode_chosen", MODE_SANDBOX)>>
                ELSE <<>>
        calls == <<Call("answer", "", <<>>)>> \o edit
    IN [mode |-> IF fail_at = 0 \/ Truthy(mode) THEN mode ELSE data,
        calls |-> Attempt(calls, fail_at),
        error |-> TelegramError(calls, fail_at)]

(***************************************************************************)
(* button_handler, lines 53-65: mode is user_data["selected_mode"] before. *)
(***************************************************************************)
button_handler(mode, update, fail_at) ==
    LET data == update.data
        edit == IF data = MODE_LIVE
                THEN <<Call("edit_message_text", "mode_chosen", MODE_LIVE)>>
                ELSE IF data = MODE_SANDBOX
                THEN <<Call("edit_message_text", "mode_chosen", MODE_SANDBOX)>>
                ELSE <<>>
        calls == <<Call("answer", "", <<>>)>> \o edit
    IN [mode |-> IF fail_at = 0 THEN mode ELSE data,
        calls |-> Attempt(calls, fail_at),
        error |-> TelegramError(calls, fail_at)]

(***************************************************************************)
(* process_data, lines 90-105, in two parts: up to the await of            *)
(* send_api_request, and from the answer of the remote side on.            *)
(***************************************************************************)
\* a mutant of api_url_for: the two endpoints exchanged
api_url_for_swapped(selected_mode) ==
    IF selected_mode = MODE_LIVE THEN API_URL_SANDBOX ELSE API_URL_LIVE

api_url_for(selected_mode) ==
    IF selected_mode = MODE_LIVE THEN API_URL_LIVE ELSE API_URL_SANDBOX

\* a mutant of process_data_begin: the check of the mode left out
process_data_begin_unguarded(mode, update, fail_at) ==
    IF update.kind # "message"
    THEN [calls |-> <<>>, error |-> Exc("AttributeError", 0), requests |-> <<>>,
          user_input |-> None, selected_mode |-> None, api_url |-> None]
    ELSE [calls |-> <<>>, error |-> NoExc,
          requests |-> <<Request(api_url_for(mode), [imei |-> update.text])>>,
          user_input |-> update.text, selected_mode |-> mode,
          api_url |-> api_url_for(mode)]

\* a mutant of process_data_begin: an empty text is turned away like a
\* missing mode
process_data_begin_validating(mode, update, fail_at) ==
    IF update.kind # "message"
    THEN [calls |-> <<>>, error |-> Exc("AttributeError", 0), requests |-> <<>>,
          user_input |-> None, selected_mode |-> None, api_url |-> None]
    ELSE IF ~Truthy(mode) \/ ~Truthy(update.text)
    THEN LET calls == <<Call("reply_text", "choose_mode_first", <<>>)>>
         IN [calls |-> Attempt(calls, fail_at),
             error |-> TelegramError(calls, fail_at), requests |-> <<>>,
             user_input |-> update.text, selected_mode |-> mode, api_url |-> None]
    ELSE [calls |-> <<>>, error |-> NoExc,
          requests |-> <<Request(api_url_for(mode), [imei |-> update.text])>>,
          user_input |-> update.text, selected_mode |-> mode,
          api_url |-> api_url_for(mode)]

\* lines 92-99
process_data_begin(mode, update, fail_at) ==
    IF update.kind # "message"
    THEN [calls |-> <<>>, error |-> Exc("AttributeError", 0), requests |-> <<>>,
          user_input |-> None, selected_mode |-> None, api_url |-> None]
    ELSE IF ~Truthy(mode)
    THEN LET calls == <<Call("reply_text", "choose_mode_first", <<>>)>>
         IN [calls |-> Attempt(calls, fail_at),
             error |-> TelegramError(calls, fail_at), requests |-> <<>>,
             user_input |-> update.text, selected_mode |-> mode, api_url |-> None]
    ELSE [calls |-> <<>>, error |-> NoExc,
          requests |-> <<Request(api_url_for(mode), [imei |-> update.text])>>,
          user_input |-> update.text, selected_mode |-> mode,
          api_url |-> api_url_for(mode)]

\* lines 101-105: one reply per character of the formatted response
Replies(formatted_response) ==
    [i \in 1..Len(formatted_response) |->
        Call("reply_text", "api_response", <<formatted_response[i]>>)]

\* lines 99-105, fr being the suspended frame
process_data_resume(fr, outcome, fail_at) ==
    LET r == send_api_request(fr.api_url, [imei |-> fr.user_input], outcome)
        calls == Replies(json_dumps(r.value))
    IN IF r.raised
       THEN [calls |-> <<>>, error |-> r.exc, response_data |-> JNull]
       ELSE [calls |-> Attempt(calls, fail_at),
             error |-> TelegramError(calls, fail_at), response_data |-> r.value]

(***************************************************************************)
(* error_handler, lines 108-118.  An Update object always has the          *)
(* attribute message, which is None unless the update is a message.        *)
(***************************************************************************)
\* a mutant of error_message: the class compared by name, subclasses not
\* taken for their base class
error_message_exact_class(error) ==
    IF error.type = "ClientConnectorError"
    THEN Call("reply_text", "error_connect", <<>>)
    ELSE IF error.type = "ClientResponseError"
    THEN Call("reply_text", "error_api", IntToStr(error.status))
    ELSE Call("reply_text", "error_generic", <<>>)

error_message(error) ==
    IF IsClientConnectorError(error) THEN Call("reply_text", "error_connect", <<>>)
    ELSE IF IsClientResponseError(error)
    THEN Call("reply_text", "error_api", IntToStr(error.status))
    ELSE Call("reply_text", "error_generic", <<>>)

error_handler(update, error, tg_ok) ==
    IF update.kind = "none" THEN [calls |-> <<>>, status |-> "returned"]
    ELSE IF update.kind # "message" THEN [calls |-> <<>>, status |-> "raised"]
    ELSE [calls |-> <<[error_message(error) EXCEPT !.ok = tg_ok]>>,
          status |-> IF tg_ok THEN "returned" ELSE "raised"]

(***************************************************************************)
(* main, lines 121-141, and the dispatch of the framework: the first       *)
(* registered handler whose filter accepts the update runs; an exception   *)
(* of a handler is given to the error handler.                             *)
(***************************************************************************)
NoApplication == [handlers |-> <<>>, error_handlers |-> <<>>]

\* lines 134-139
RegisteredApplication ==
    [handlers |-> <<"start", "button_handler", "process_data">>,
     error_handlers |-> <<"error_handler">>]

IsMessageKind(update) == update.kind \in {"message", "edited_message"}

\* CommandHandler("start"): the first word of the text is /start
IsStartCommand(update) ==
    /\ IsMessageKind(update)
    /\ Truthy(update.text)
    /\ \/ update.text = S_start
       \/ /\ Len(update.text) > Len(S_start)
          /\ SubSeq(update.text, 1, Len(S_start) + 1) = S_start \o <<" ">>

\* filters.TEXT: the message has a non-empty text
filters_TEXT(update) == IsMessageKind(update) /\ Truthy(update.text)

\* filters.COMMAND: the text starts with a bot command
filters_COMMAND(update) == filters_TEXT(update) /\ update.text[1] = "/"

Matches(handler, update) ==
    CASE handler = "start" -> IsStartCommand(update)
      [] handler = "button_handler" -> update.kind = "callback_query"
      [] handler = "process_data" -> filters_TEXT(update) /\ ~filters_COMMAND(update)

RECURSIVE RouteIn(_, _)
RouteIn(hs, update) ==
    IF hs = <<>> THEN "none"
    ELSE IF Matches(Head(hs), update) THEN Head(hs)
    ELSE RouteIn(Tail(hs), update)

Route(update) == RouteIn(application.handlers, update)

\* the error handlers run on the exception of a handler, if there is one
OnError(update, error, tg_ok) ==
    IF error = NoExc \/ application.error_handlers = <<>>
    THEN [calls |-> <<>>, status |-> "not_run"]
    ELSE error_handler(update, error, tg_ok)

NewFrame(handler, update) ==
    [pc |-> "done", handler |-> handler, update |-> update, user_input |-> None,
     selected_mode |-> None, api_url |-> None, outcome |-> NoOutcome,
     response_data |-> JNull, error |-> NoExc, eh |-> "not_run"]

IdleFrame == [NewFrame("none", NoUpdate) EXCEPT !.pc = "idle"]

\* no handler run stands at its end: a run that has ended returns to the
\* event loop before the loop does anything else
NoneEnding == \A d \in Conversations : frame[d].pc # "done"

\* an update of conversation c can be taken up: the handlers of one
\* conversation do not overlap
CanDeliver(c) ==
    /\ pc_main = "run_polling"
    /\ nupdates < MaxUpdates
    /\ NoneEnding
    /\ frame[c].pc = "idle"

Init ==
    /\ environ \in Environments
    /\ pc_main = "start"
    /\ application = NoApplication
    /\ user_data = [c \in Conversations |-> None]
    /\ frame = [c \in Conversations |-> IdleFrame]
    /\ sent = [c \in Conversations |-> <<>>]
    /\ posts = [c \in Conversations |-> <<>>]
    /\ nupdates = 0

Main ==
    /\ pc_main = "start"
    /\ IF load_env_vars # ""
       THEN pc_main' = "raised" /\ UNCHANGED application
       ELSE pc_main' = "run_polling" /\ application' = RegisteredApplication
    /\ UNCHANGED <<environ, user_data, frame, sent, posts, nupdates>>

\* an update no handler accepts
Unhandled(c, update) ==
    /\ CanDeliver(c)
    /\ Route(update) = "none"
    /\ frame' = [frame EXCEPT ![c] = NewFrame("none", update)]
    /\ sent' = [sent EXCEPT ![c] = <<>>]
    /\ nupdates' = nupdates + 1
    /\ UNCHANGED <<environ, pc_main, application, user_data, posts>>

\* a mutant of StartCommand: /start puts the selection back to unset
StartCommand_resetting(c, update, fail_at, eh_ok) ==
    /\ CanDeliver(c)
    /\ Route(update) = "start"
    /\ \E r \in {start(update, fail_at)} :
       \E eh \in {OnError(update, r.error, eh_ok)} :
          /\ frame' = [frame EXCEPT ![c] =
                          [NewFrame("start", update) EXCEPT
                              !.error = r.error, !.eh = eh.status]]
          /\ sent' = [sent EXCEPT ![c] = r.calls \o eh.calls]
    /\ user_data' = [user_data EXCEPT ![c] = None]
    /\ nupdates' = nupdates + 1
    /\ UNCHANGED <<environ, pc_main, application, posts>>

StartCommand(c, update, fail_at, eh_ok) ==
    /\ CanDeliver(c)
    /\ Route(update) = "start"
    /\ \E r \in {start(update, fail_at)} :
       \E eh \in {OnError(update, r.error, eh_ok)} :
          /\ frame' = [frame EXCEPT ![c] =
                          [NewFrame("start", update) EXCEPT
                              !.error = r.error, !.eh = eh.status]]
          /\ sent' = [sent EXCEPT ![c] = r.calls \o eh.calls]
    /\ nupdates' = nupdates + 1
    /\ UNCHANGED <<environ, pc_main, application, user_data, posts>>

\* a mutant of ButtonPressed: the mode kept in one place for all
\* conversations (bot_data in place of user_data)
ButtonPressed_shared(c, update, fail_at, eh_ok) ==
    /\ CanDeliver(c)
    /\ Route(update) = "button_handler"
    /\ \E r \in {button_handler(user_data[c], update, fail_at)} :
       \E eh \in {OnError(update, r.error, eh_ok)} :
          /\ user_data' = [d \in Conversations |-> r.mode]
          /\ frame' = [frame EXCEPT ![c] =
                          [NewFrame("button_handler", update) EXCEPT
                              !.error = r.error, !.eh = eh.status]]
          /\ sent' = [sent EXCEPT ![c] = r.calls \o eh.calls]
    /\ nupdates' = nupdates + 1
    /\ UNCHANGED <<environ, pc_main, application, posts>>

ButtonPressed(c, update, fail_at, eh_ok) ==
    /\ CanDeliver(c)
    /\ Route(update) = "button_handler"
    /\ \E r \in {button_handler(user_data[c], update, fail_at)} :
       \E eh \in {OnError(update, r.error, eh_ok)} :
          /\ user_data' = [user_data EXCEPT ![c] = r.mode]
          /\ frame' = [frame EXCEPT ![c] =
                          [NewFrame("button_handler", update) EXCEPT
                              !.error = r.error, !.eh = eh.status]]
          /\ sent' = [sent EXCEPT ![c] = r.calls \o eh.calls]
    /\ nupdates' = nupdates + 1
    /\ UNCHANGED <<environ, pc_main, application, posts>>

\* process_data up to its await of send_api_request, or to its end when it
\* does not get there
RunProcessData(c, update, fail_at, eh_ok) ==
    \E r \in {process_data_begin(user_data[c], update, fail_at)} :
    \E eh \in {OnError(update, r.error, eh_ok)} :
       /\ frame' = [frame EXCEPT ![c] =
                       [NewFrame("process_data", update) EXCEPT
                           !.pc = IF r.requests # <<>> THEN "await_api" ELSE "done",
                           !.user_input = r.user_input,
                           !.selected_mode = r.selected_mode,
                           !.api_url = r.api_url,
                           !.error = r.error, !.eh = eh.status]]
       /\ sent' = [sent EXCEPT ![c] = r.calls \o eh.calls]
       /\ posts' = [posts EXCEPT ![c] = r.requests]
       /\ nupdates' = nupdates + 1
       /\ UNCHANGED <<environ, pc_main, application, user_data>>

TextReceived(c, update, fail_at, eh_ok) ==
    /\ CanDeliver(c)
    /\ Route(update) = "process_data"
    /\ RunProcessData(c, update, fail_at, eh_ok)

\* a mutant of ApiAnswered: no ClientTimeout, so that the call to a remote
\* side that never answers stays pending
ApiAnswered_without_timeout(c, outcome, fail_at, eh_ok) ==
    /\ frame[c].pc = "await_api"
    /\ NoneEnding
    /\ IF outcome.kind = "exception" /\ outcome.exc = "TimeoutError"
       THEN /\ frame' = [frame EXCEPT ![c] = [@ EXCEPT !.pc = "pending"]]
            /\ UNCHANGED sent
       ELSE \E r \in {process_data_resume(frame[c], outcome, fail_at)} :
            \E eh \in {OnError(frame[c].update, r.error, eh_ok)} :
               /\ frame' = [frame EXCEPT ![c] =
                               [@ EXCEPT !.pc = "done", !.outcome = outcome,
                                         !.response_data = r.response_data,
                                         !.error = r.error, !.eh = eh.status]]
               /\ sent' = [sent EXCEPT ![c] = @ \o r.calls \o eh.calls]
    /\ UNCHANGED <<environ, pc_main, application, user_data, posts, nupdates>>

\* the remote side answers the request of c, or the transport fails, and
\* process_data runs to its end
ApiAnswered(c, outcome, fail_at, eh_ok) ==
    /\ frame[c].pc = "await_api"
    /\ NoneEnding
    /\ \E r \in {process_data_resume(frame[c], outcome, fail_at)} :
       \E eh \in {OnError(frame[c].update, r.error, eh_ok)} :
          /\ frame' = [frame EXCEPT ![c] =
                          [@ EXCEPT !.pc = "done", !.outcome = outcome,
                                    !.response_data = r.response_data,
                                    !.error = r.error, !.eh = eh.status]]
          /\ sent' = [sent EXCEPT ![c] = @ \o r.calls \o eh.calls]
    /\ UNCHANGED <<environ, pc_main, application, user_data, posts, nupdates>>

\* the handler run of c, at its end, returns: its frame is gone
HandlerReturns(c) ==
    /\ frame[c].pc = "done"
    /\ frame' = [frame EXCEPT ![c] = IdleFrame]
    /\ sent' = [sent EXCEPT ![c] = <<>>]
    /\ posts' = [posts EXCEPT ![c] = <<>>]
    /\ UNCHANGED <<environ, pc_main, application, user_data, nupdates>>

Next ==
    \/ Main
    \/ \E c \in Conversations : HandlerReturns(c)
    \/ \E c \in Conversations, update \in Updates : Unhandled(c, update)
    \/ \E c \in Conversations, update \in Updates, fail_at \in FailChoices,
          eh_ok \in BOOLEAN : StartCommand(c, update, fail_at, eh_ok)
    \/ \E c \in Conversations, update \in Updates, fail_at \in FailChoices,
          eh_ok \in BOOLEAN : ButtonPressed(c, update, fail_at, eh_ok)
    \/ \E c \in Conversations, update \in Updates, fail_at \in FailChoices,
          eh_ok \in BOOLEAN : TextReceived(c, update, fail_at, eh_ok)
    \/ \E c \in Conversations, outcome \in Outcomes, fail_at \in FailChoices,
          eh_ok \in BOOLEAN : ApiAnswered(c, outcome, fail_at, eh_ok)

Spec == Init /\ [][Next]_vars

(***************************************************************************)
(* Progress.  A call of send_api_request that has got no answer is ended   *)
(* by the ClientTimeout(total=TIMEOUT_TOTAL) of line 75 with a             *)
(* TimeoutError; the event loop then resumes process_data, and a coroutine *)
(* at its end returns.                                                     *)
(***************************************************************************)
\* what process_data does after a call the timeout ended: the record
\* send_api_request returns for it depends on nothing but the exception
TimeoutResume ==
    [fail_at \in FailChoices |->
        process_data_resume(IdleFrame, TransportFailure("TimeoutError"), fail_at)]

\* ApiAnswered(c, TransportFailure("TimeoutError"), fail_at, eh_ok)
TimeoutFires(c) ==
    /\ frame[c].pc = "await_api"
    /\ NoneEnding
    /\ \E fail_at \in FailChoices, eh_ok \in BOOLEAN :
       \E r \in {TimeoutResume[fail_at]} :
       \E eh \in {OnError(frame[c].update, r.error, eh_ok)} :
          /\ frame' = [frame EXCEPT ![c] =
                          [@ EXCEPT !.pc = "done",
                                    !.outcome = TransportFailure("TimeoutError"),
                                    !.response_data = r.response_data,
                                    !.error = r.error, !.eh = eh.status]]
          /\ sent' = [sent EXCEPT ![c] = @ \o r.calls \o eh.calls]
    /\ UNCHANGED <<environ, pc_main, application, user_data, posts, nupdates>>

Fairness ==
    \A c \in Conversations : WF_vars(TimeoutFires(c)) /\ WF_vars(HandlerReturns(c))

SpecLive == Init /\ [][Next]_vars /\ Fairness

(***************************************************************************)
(* The handlers called directly, as a test of process_data calls it: the   *)
(* text does not pass the filters of the MessageHandler first, so it may   *)
(* be the empty str or a command.                                          *)
(***************************************************************************)
DirectTexts == {<<>>, IMEI, S_start}

ProcessDataCalled(c, text, fail_at, eh_ok) ==
    /\ CanDeliver(c)
    /\ RunProcessData(c, MessageUpdate(text), fail_at, eh_ok)

NextHandler ==
    \/ Next
    \/ \E c \in Conversations, text \in DirectTexts, fail_at \in FailChoices,
          eh_ok \in BOOLEAN : ProcessDataCalled(c, text, fail_at, eh_ok)

SpecHandler == Init /\ [][NextHandler]_vars

(***************************************************************************)
(* error_handler called directly, as the framework calls it for an         *)
(* exception of any callback: context.error is any exception, and update   *)
(* is the update handled or None (an exception outside of an update).      *)
(***************************************************************************)
RaisedErrors ==
    {Exc("ClientConnectorError", 0), Exc("ClientConnectorSSLError", 0),
     Exc("ClientResponseError", 404), Exc("ContentTypeError", 200),
     Exc("TimeoutError", 0), Exc("NetworkError", 0)}

RaisedUpdates == {MessageUpdate(IMEI), CallbackUpdate(MODE_LIVE), NoUpdate}

ErrorRaised(c, update, error, eh_ok) ==
    /\ CanDeliver(c)
    /\ \E eh \in {OnError(update, error, eh_ok)} :
          /\ frame' = [frame EXCEPT ![c] =
                          [NewFrame("raising", update) EXCEPT
                              !.error = error, !.eh = eh.status]]
          /\ sent' = [sent EXCEPT ![c] = eh.calls]
    /\ nupdates' = nupdates + 1
    /\ UNCHANGED <<environ, pc_main, application, user_data, posts>>

NextErrorHandler ==
    \/ Next
    \/ \E c \in Conversations, update \in RaisedUpdates, error \in RaisedErrors,
          eh_ok \in BOOLEAN : ErrorRaised(c, update, error, eh_ok)

SpecErrorHandler == Init /\ [][NextErrorHandler]_vars

(***************************************************************************)
(* The properties.                                                         *)
(***************************************************************************)
\* the handler run of c is process_data on a message
TextRun(c) == frame[c].handler = "process_data" /\ frame[c].update.kind = "message"

\* the endpoint of a mode as section 6 of the specification words it
Endpoint(m) ==
    IF m = MODE_LIVE
    THEN S_http \o environ["API_HOST"] \o <<":">> \o environ["API_PORT"]
         \o S_api \o S_check_imei
    ELSE S_http \o environ["API_HOST"] \o <<":">> \o environ["API_PORT"]
         \o S_api \o S_check_imei_sandbox

\* the value of a str of decimal digits
RECURSIVE DecimalValue(_)
DecimalValue(s) ==
    IF s = <<>> THEN 0
    ELSE 10 * DecimalValue(SubSeq(s, 1, Len(s) - 1)) + DigitValue(s[Len(s)])

S_request_failed_404 ==
    <<"R", "e", "q", "u", "e", "s", "t", " ", "f", "a", "i", "l", "e", "d",
    " ", "w", "i", "t", "h", " ", "s", "t", "a", "t", "u", "s", " ", "4",
    "0", "4">>

\* C1: while no mode is selected in a conversation (none has been since the
\* start: only a selection of that conversation ever sets one), process_data
\* on a text message of it replies with the prompt to choose a mode first and
\* issues no HTTP request; a request is only issued, and only exists, while
\* the selected mode of its conversation is set.
C1_State ==
    \A c \in Conversations :
        /\ (TextRun(c) /\ ~Truthy(user_data[c])) =>
              /\ posts[c] = <<>>
              /\ frame[c].pc = "done"
              /\ sent[c] # <<>>
              /\ sent[c][1].method = "reply_text"
              /\ sent[c][1].tpl = "choose_mode_first"
              /\ \A i \in DOMAIN sent[c] : sent[c][i].tpl # "api_response"
        /\ posts[c] # <<>> => Truthy(user_data[c])

C1_Step ==
    \A c \in Conversations :
        /\ (posts'[c] # posts[c] /\ posts'[c] # <<>>) => Truthy(user_data[c])
        /\ (user_data[c] = None /\ user_data'[c] # None) =>
              frame'[c].handler = "button_handler"

C1_NoRequestWithoutMode == [](C1_State) /\ [][C1_Step]_vars

C1_Witness ==
    \E c \in Conversations :
        /\ TextRun(c)
        /\ user_data[c] = None
        /\ frame[c].update.text = IMEI
        /\ sent[c] = <<Call("reply_text", "choose_mode_first", <<>>)>>
        /\ posts[c] = <<>>
        /\ nupdates > 1

\* C2: with live or sandbox selected in a conversation, a text submitted in
\* it has exactly one request issued for it, a POST to the endpoint of the
\* selected mode with imei = the text, while the call is pending and after
\* any outcome of it.
C2_OnePostToSelectedEndpoint ==
    \A c \in Conversations :
        (TextRun(c) /\ user_data[c] \in {MODE_LIVE, MODE_SANDBOX}) =>
            /\ Len(posts[c]) = 1
            /\ posts[c][1].method = "POST"
            /\ posts[c][1].url = Endpoint(user_data[c])
            /\ posts[c][1].params = [imei |-> frame[c].update.text]

C2_Witness ==
    \E c \in Conversations :
        /\ TextRun(c)
        /\ frame[c].pc = "done"
        /\ user_data[c] = MODE_SANDBOX
        /\ frame[c].update.text = IMEI
        /\ frame[c].outcome.kind = "exception"
        /\ Len(posts[c]) = 1
        /\ posts[c][1].url = S_http \o <<"h", ":", "8", "0">> \o S_api
                             \o S_check_imei_sandbox
        /\ posts[c][1].params.imei = IMEI

\* C3: when the remote API answers with status 200 and a body that is a JSON
\* text, send_api_request returns the decoded body, unchanged.
C3_Status200ReturnsDecodedBody ==
    \A c \in Conversations :
        (/\ TextRun(c)
         /\ frame[c].pc = "done"
         /\ frame[c].outcome.kind = "response"
         /\ frame[c].outcome.status = 200
         /\ json_loads(frame[c].outcome.body).ok) =>
            frame[c].response_data = json_loads(frame[c].outcome.body).val

\* C3, the case the code does handle: a 200 answer served as
\* application/json whose body is a JSON text is returned decoded, unchanged.
C3_JsonContentTypeReturnsDecodedBody ==
    \A c \in Conversations :
        (/\ TextRun(c)
         /\ frame[c].pc = "done"
         /\ frame[c].outcome.kind = "response"
         /\ frame[c].outcome.status = 200
         /\ frame[c].outcome.ctype = "application/json"
         /\ json_loads(frame[c].outcome.body).ok) =>
            /\ frame[c].response_data = json_loads(frame[c].outcome.body).val
            /\ frame[c].outcome.body = Body2 =>
                  frame[c].response_data = JDict(<< <<(<<"a">>), JStr(<<"b">>)>> >>)

\* C4: for every status s other than 200, send_api_request returns the
\* record {error: "Request failed with status s"}, the digits being those of
\* s, and raises nothing.
C4_Non200GivesStatusError ==
    \A c \in Conversations :
        (/\ TextRun(c)
         /\ frame[c].pc = "done"
         /\ frame[c].outcome.kind = "response"
         /\ frame[c].outcome.status # 200) =>
            /\ frame[c].error.type \in {"", "NetworkError"}
            /\ frame[c].response_data.t = "dict"
            /\ Len(frame[c].response_data.items) = 1
            /\ frame[c].response_data.items[1][1] = S_error
            /\ frame[c].response_data.items[1][2].t = "str"
            /\ \E text \in {frame[c].response_data.items[1][2].s} :
                  /\ Len(text) > Len(S_request_failed)
                  /\ SubSeq(text, 1, Len(S_request_failed)) = S_request_failed
                  /\ \A i \in (Len(S_request_failed) + 1)..Len(text) :
                        text[i] \in Digits
                  /\ DecimalValue(SubSeq(text, Len(S_request_failed) + 1, Len(text)))
                        = frame[c].outcome.status

C4_Witness ==
    \E c \in Conversations :
        /\ TextRun(c)
        /\ frame[c].pc = "done"
        /\ frame[c].outcome.kind = "response"
        /\ frame[c].outcome.status = 404
        /\ frame[c].error = NoExc
        /\ frame[c].response_data = JDict(<< <<S_error, JStr(S_request_failed_404)>> >>)

\* C5: when the outbound call fails in the transport (no connection, TLS
\* failure, timeout), send_api_request returns {error: "Failed to connect to
\* API"}; no exception of the relay reaches process_data or error_handler.
C5_TransportFailureIsReturned ==
    \A c \in Conversations :
        /\ (TextRun(c) /\ frame[c].pc = "done" /\ frame[c].outcome.kind = "exception")
              => frame[c].response_data = JDict(<< <<S_error, JStr(S_failed_to_connect)>> >>)
        /\ frame[c].handler = "process_data" =>
              frame[c].error.type \in {"", "AttributeError", "NetworkError"}

C5_Witness ==
    \E c \in Conversations :
        /\ TextRun(c)
        /\ frame[c].pc = "done"
        /\ frame[c].outcome = TransportFailure("TimeoutError")
        /\ frame[c].response_data = JDict(<< <<S_error, JStr(S_failed_to_connect)>> >>)
        /\ frame[c].error = NoExc
        /\ frame[c].eh = "not_run"

\* C6: a conversation's mode is exactly what its selection handler recorded
\* last: a selection that records overwrites whatever was stored, nothing
\* but a selection of the conversation changes the stored mode, and
\* process_data reads the stored mode.
C6_State ==
    \A c \in Conversations :
        /\ (/\ frame[c].handler = "button_handler"
            /\ sent[c] # <<>>
            /\ sent[c][1].ok) => user_data[c] = frame[c].update.data
        /\ TextRun(c) => frame[c].selected_mode = user_data[c]

C6_Step ==
    \A c \in Conversations :
        user_data'[c] # user_data[c] =>
            /\ frame[c].pc = "idle"
            /\ frame'[c].handler = "button_handler"
            /\ user_data'[c] = frame'[c].update.data

C6_ModeKeptUntilOverwritten == [](C6_State) /\ [][C6_Step]_vars

C6_Witness ==
    \E c \in Conversations :
        /\ TextRun(c)
        /\ frame[c].selected_mode = MODE_SANDBOX
        /\ nupdates = 3
        /\ \A d \in Conversations \ {c} : user_data[d] = None

\* C7: with a mode selected, process_data issues its one request whatever
\* the text is: the empty text after live gives one POST to the live
\* endpoint with imei = "".
C7_NoValidationOfText ==
    \A c \in Conversations :
        (TextRun(c) /\ Truthy(user_data[c])) =>
            /\ Len(posts[c]) = 1
            /\ posts[c][1].method = "POST"
            /\ posts[c][1].params = [imei |-> frame[c].update.text]
            /\ (user_data[c] = MODE_LIVE /\ frame[c].update.text = <<>>) =>
                  /\ posts[c][1].url = Endpoint(MODE_LIVE)
                  /\ posts[c][1].params.imei = <<>>

C7_Witness ==
    \E c \in Conversations :
        /\ TextRun(c)
        /\ frame[c].pc = "done"
        /\ user_data[c] = MODE_LIVE
        /\ frame[c].update.text = <<>>
        /\ Len(posts[c]) = 1
        /\ posts[c][1].url = S_http \o <<"h", ":", "8", "0">> \o S_api \o S_check_imei
        /\ posts[c][1].params.imei = <<>>

\* C8: a text handled with a mode selected gets exactly one reply message,
\* holding the whole pretty-printed JSON text of the response of the relay.
C8_OneReplyWithWholeJson ==
    \A c \in Conversations :
        (/\ TextRun(c)
         /\ frame[c].pc = "done"
         /\ Truthy(frame[c].selected_mode)
         /\ frame[c].error = NoExc) =>
            sent[c] = <<Call("reply_text", "api_response",
                             json_dumps(frame[c].response_data))>>

\* C9: whenever the handling of an update fails, a reprompt or an error
\* message is sent to the user (counting a send that Telegram then refuses),
\* and error_handler does not itself fail without having sent one.
C9_NoErrorDropped ==
    \A c \in Conversations :
        (frame[c].pc = "done" /\ frame[c].error # NoExc) =>
            \E i \in DOMAIN sent[c] :
                /\ sent[c][i].method = "reply_text"
                /\ sent[c][i].tpl \in {"error_generic", "error_connect",
                                       "error_api"}

\* C10: when a required variable is missing or empty, main raises before it
\* builds the application: no handler is registered and nothing is polled;
\* the bot polls only with all five variables set.
C10_StartupFatalWhenSettingMissing ==
    /\ (\E v \in EnvVars : ~Truthy(environ[v])) =>
          /\ pc_main \in {"start", "raised"}
          /\ application = NoApplication
          /\ nupdates = 0
          /\ \A c \in Conversations : frame[c] = IdleFrame
    /\ pc_main = "run_polling" =>
          /\ \A v \in EnvVars : Truthy(environ[v])
          /\ application = RegisteredApplication
    /\ pc_main = "raised" => \E v \in EnvVars : ~Truthy(environ[v])

C10_Witness ==
    /\ pc_main = "raised"
    /\ environ["TEST"] = <<>>
    /\ \A v \in EnvVars \ {"TEST"} : Truthy(environ[v])
    /\ application = NoApplication

\* the text error_handler has for an exception, by the classes the
\* specification names
ExpectedErrorText(e) ==
    IF e.type \in {"ClientConnectorError", "ClientConnectorSSLError"}
    THEN "error_connect"
    ELSE IF e.type \in {"ClientResponseError", "ContentTypeError"}
    THEN "error_api"
    ELSE "error_generic"

ErrorTexts == {"error_connect", "error_api", "error_generic"}

\* C11: error_handler picks its message by the class of the exception: the
\* "cannot reach API" text for a failure to connect, the text with the HTTP
\* status for a response error, the generic text for anything else; for an
\* update that is a message it sends that message and no other; running it
\* changes neither the payload the relay returned to process_data nor the
\* selected mode of any conversation.
C11_State ==
    \A c \in Conversations :
        (frame[c].pc = "done" /\ frame[c].eh # "not_run") =>
            /\ \A i \in DOMAIN sent[c] :
                  sent[c][i].tpl \in ErrorTexts =>
                      /\ i = Len(sent[c])
                      /\ sent[c][i].method = "reply_text"
                      /\ sent[c][i].tpl = ExpectedErrorText(frame[c].error)
                      /\ sent[c][i].tpl = "error_api" =>
                            /\ sent[c][i].arg # <<>>
                            /\ \A k \in DOMAIN sent[c][i].arg :
                                  sent[c][i].arg[k] \in Digits
                            /\ DecimalValue(sent[c][i].arg) = frame[c].error.status
            /\ frame[c].update.kind = "message" =>
                  /\ sent[c] # <<>>
                  /\ sent[c][Len(sent[c])].tpl = ExpectedErrorText(frame[c].error)
            /\ (TextRun(c) /\ frame[c].outcome.kind # "none") =>
                  frame[c].response_data =
                      send_api_request(frame[c].api_url,
                                       [imei |-> frame[c].user_input],
                                       frame[c].outcome).value

C11_Step ==
    \A c \in Conversations :
        (frame[c].pc # "done" /\ frame'[c].pc = "done" /\ frame'[c].eh # "not_run") =>
            /\ \A d \in Conversations \ {c} : user_data'[d] = user_data[d]
            /\ frame'[c].handler # "button_handler" => user_data'[c] = user_data[c]
            /\ user_data'[c] \in {user_data[c], frame'[c].update.data}

C11_ErrorMessageByType == [](C11_State) /\ [][C11_Step]_vars

C11_Witness ==
    \E c \in Conversations :
        /\ frame[c].pc = "done"
        /\ frame[c].update = MessageUpdate(IMEI)
        /\ frame[c].error = Exc("ContentTypeError", 200)
        /\ frame[c].eh = "returned"
        /\ sent[c] = <<Call("reply_text", "error_api", <<"2", "0", "0">>)>>
        /\ user_data[c] = MODE_LIVE

\* C12: the selected mode of every conversation is live, sandbox or unset,
\* whatever callback data the button presses carried.
C12_ModeIsLiveSandboxOrUnset ==
    \A c \in Conversations : user_data[c] \in {MODE_LIVE, MODE_SANDBOX, None}

\* C13: whenever button_handler has stored a mode for a conversation (its
\* query.answer() went through, so line 57 ran), it has also called
\* edit_message_text with the prompt naming the stored mode (counting a call
\* that Telegram then refuses).
C13_StoredModeIsPrompted ==
    \A c \in Conversations :
        (/\ frame[c].handler = "button_handler"
         /\ frame[c].pc = "done"
         /\ sent[c] # <<>>
         /\ sent[c][1].method = "answer"
         /\ sent[c][1].ok) =>
            /\ user_data[c] = frame[c].update.data
            /\ \E i \in DOMAIN sent[c] :
                  /\ sent[c][i].method = "edit_message_text"
                  /\ sent[c][i].tpl = "mode_chosen"
                  /\ sent[c][i].arg = user_data[c]

\* C14: the selected mode of a conversation changes only in a step that
\* runs button_handler for an update of that conversation, and such a step
\* leaves the modes and the handler runs of the other conversations alone;
\* every step of start, of process_data (before and after its await, with
\* or without an error), of error_handler, and the return of a handler
\* leaves the selected mode of every conversation as it was.
C14_Step ==
    \A c \in Conversations :
        /\ user_data'[c] # user_data[c] =>
              /\ frame[c].pc = "idle"
              /\ frame'[c].pc = "done"
              /\ frame'[c].handler = "button_handler"
              /\ \A d \in Conversations \ {c} :
                    user_data'[d] = user_data[d] /\ frame'[d] = frame[d]
        /\ (frame'[c] # frame[c] /\ frame'[c].handler # "button_handler") =>
              user_data' = user_data

C14_OnlySelectionWritesMode == [][C14_Step]_vars

C14_Witness ==
    \E c \in Conversations :
        /\ TextRun(c)
        /\ frame[c].pc = "done"
        /\ frame[c].error = Exc("NetworkError", 0)
        /\ frame[c].eh = "returned"
        /\ user_data[c] = MODE_LIVE
        /\ \A d \in Conversations \ {c} : user_data[d] = MODE_SANDBOX

\* C15: whatever the other conversations do while process_data of c waits
\* for send_api_request, the request of c goes to the endpoint of the mode c
\* had when process_data read it, which is still the mode of c, with the
\* text of c; the replies sent to c are the characters of the response to
\* the request of c; a step of another conversation changes nothing of the
\* waiting run of c, and the answer to c changes nothing of the others.
C15_State ==
    \A c \in Conversations :
        (TextRun(c) /\ posts[c] # <<>>) =>
            /\ Len(posts[c]) = 1
            /\ frame[c].selected_mode = user_data[c]
            /\ posts[c][1].url = frame[c].api_url
            /\ frame[c].selected_mode \in {MODE_LIVE, MODE_SANDBOX} =>
                  posts[c][1].url = Endpoint(frame[c].selected_mode)
            /\ posts[c][1].params = [imei |-> frame[c].update.text]
            /\ frame[c].pc = "await_api" => sent[c] = <<>>
            /\ frame[c].pc = "done" =>
                  /\ frame[c].response_data =
                        send_api_request(posts[c][1].url, posts[c][1].params,
                                         frame[c].outcome).value
                  /\ \A i \in DOMAIN sent[c] :
                        sent[c][i].tpl = "api_response" =>
                            /\ i <= Len(json_dumps(frame[c].response_data))
                            /\ sent[c][i].arg =
                                  <<json_dumps(frame[c].response_data)[i]>>

C15_Step ==
    \A c \in Conversations : \A d \in Conversations \ {c} :
        /\ (frame[c].pc = "await_api" /\ frame'[d] # frame[d]) =>
              /\ frame'[c] = frame[c]
              /\ posts'[c] = posts[c]
              /\ sent'[c] = sent[c]
              /\ user_data'[c] = user_data[c]
        /\ (frame[c].pc = "await_api" /\ frame'[c].pc = "done") =>
              /\ frame'[d] = frame[d]
              /\ posts'[d] = posts[d]
              /\ sent'[d] = sent[d]
              /\ user_data' = user_data

C16_State ==
    \A c \in Conversations :
        (TextRun(c) /\ frame[c].pc = "done" /\ posts[c] # <<>>) =>
            /\ frame[c].outcome.kind \in {"response", "exception"}
            /\ frame[c].error.type \in {"", "NetworkError"}
            /\ \/ /\ frame[c].outcome.kind = "response"
                  /\ frame[c].outcome.status = 200
                  /\ json_loads(frame[c].outcome.body).ok
                  /\ frame[c].response_data = json_loads(frame[c].outcome.body).val
               \/ /\ frame[c].response_data.t = "dict"
                  /\ \E i \in DOMAIN frame[c].response_data.items :
                        frame[c].response_data.items[i][1] = S_error
            /\ frame[c].outcome = TransportFailure("TimeoutError") =>
                  frame[c].response_data = ErrorRecord(S_failed_to_connect)
            /\ sent[c] # <<>>
            /\ sent[c][1].method = "reply_text"
            /\ sent[c][1].tpl = "api_response"

C16_Returns ==
    \A c \in Conversations :
        (TextRun(c) /\ frame[c].pc = "await_api") ~>
            (/\ TextRun(c)
             /\ frame[c].pc = "done"
             /\ sent[c] # <<>>
             /\ sent[c][1].tpl = "api_response")

C17_TestFlagControlsVerification ==
    \A c \in Conversations : \A i \in DOMAIN posts[c] :
        /\ TEST => posts[c][i].ssl # "None"
        /\ ~TEST => posts[c][i].ssl = "None"

\* C18: send_api_request returns {error: "Failed to connect to API"} only
\* for a call that failed in the transport; it does not return it for an
\* answer that was received, a 200 whose body is not a JSON text included.
C18_ConnectErrorOnlyForTransportFailure ==
    \A c \in Conversations :
        (/\ TextRun(c)
         /\ frame[c].pc = "done"
         /\ frame[c].response_data = ErrorRecord(S_failed_to_connect)) =>
            /\ frame[c].outcome.kind = "exception"
            /\ frame[c].outcome.exc \in TransportErrors

=============================================================================
